---------------------------- MODULE Spec2Model ----------------------------
(***************************************************************************)
(* A model of composer's MosaicMLLogger (loggers/mosaicml_logger.py) and   *)
(* EvalOutputLogging (callbacks/eval_output_logging_callback.py).          *)
(*                                                                         *)
(* Python values are tagged records [t |-> tag, v |-> payload]; a Python   *)
(* string is a sequence of string tokens, so that two strings are always   *)
(* comparable.  Keys and fnmatch patterns are sequences of characters.     *)
(***************************************************************************)
EXTENDS Integers, Sequences, FiniteSets, TLC

VARIABLES
    \* ---- MosaicMLLogger: constructor arguments and environment
    global_rank,                \* dist.get_global_rank()
    env_run_name,               \* os.environ.get('RUN_NAME')
    log_interval,
    ignore_keys,
    \* ---- MosaicMLLogger: fields
    _enabled,
    run_name,
    allowed_fails_left,
    time_last_logged,
    train_dataloader_len,
    time_failed_count_adjusted,
    buffered_metadata,
    \* ---- the wall clock, time.time()
    now,
    \* ---- history of the logger
    lastOp,                     \* the callback that ran in the last step
    raised,                     \* the exception the last callback raised, or "none"
    sent,                       \* the remote calls the last callback made, in order
    logged,                     \* raw value of the latest log call per buffered key
    consecFails,                \* failed remote calls since the last successful one
    lastOkAt,                   \* when the last successful remote call returned
    lastAdjustAt,               \* when a remote call last failed or a failure was
                                \* last given back
    lastFailAt,                 \* when a remote call last failed
    failsInWindow,              \* the failed remote calls up to the last, each less
                                \* than an hour after the one before
    \* ---- EvalOutputLogging: constructor arguments and fields
    print_only_incorrect,
    subset_sample,
    table,
    table_keys,                 \* the keys of table in the order a dict keeps them
    output_directory,
    hash,                       \* self.hash, as the number of updates it has had
    \* ---- the file system the callback writes to
    tmp_dirs,                   \* the state of the temporary directory of each digest
    \* ---- the trainer the callback is attached to
    eval_metrics,               \* state.eval_metrics: benchmark -> its metrics, in order
    response_cache,             \* benchmark -> per metric, whether it caches responses
    destinations,               \* logger.destinations
    \* ---- history of the callback
    evalOp,                     \* the callback that ran in the last step
    evalError,                  \* the exception it raised, or "none"
    evalLabel,                  \* state.dataloader_label it ran with
    evalDataloader,             \* state.dataloader it ran with
    responses,                  \* what each format_response_cache of it returned
    visited,                    \* the metrics its loop reached, in order
    stored_by,                  \* the metrics that stored a table entry, in order
    log_table_calls,            \* the log_table calls it made, in order
    written,                    \* the table it wrote to its temporary file, or None
    delivered,                  \* the files it handed to a sink, in order
    failed_in,                  \* the step of the write that raised, or "none"
    resolved,                   \* what the destination resolved to: "store" for an
                                \* object store, "none" for none, "unasked"
    stored_since                \* what eval_end stored since the last write that
                                \* returned, oldest first

loggerVars == <<global_rank, env_run_name, log_interval, ignore_keys, _enabled,
                run_name, allowed_fails_left, time_last_logged, train_dataloader_len,
                time_failed_count_adjusted, buffered_metadata, now, lastOp, raised,
                sent, logged, consecFails, lastOkAt, lastAdjustAt, lastFailAt,
                failsInWindow>>

evalVars == <<print_only_incorrect, subset_sample, table, eval_metrics, response_cache,
              destinations, evalOp, evalError, evalLabel, evalDataloader, responses, visited, stored_by,
              log_table_calls, table_keys, output_directory, hash, tmp_dirs, written,
              delivered, failed_in, resolved, stored_since>>

vars == <<loggerVars, evalVars>>

-----------------------------------------------------------------------------
(* Bounds of the model *)

\* the clock reading at construction, seconds since the epoch
ClockBase == 1700000000
\* the hours after ClockBase the clock is followed for
MaxHours == 1
\* the most rows a metric returns
MaxRows == 2
\* the most writes of the table that are followed
MaxWrites == 2

(* Program constants *)
InitialFails == 3
FailWindow == 3600
DefaultLogInterval == 60

-----------------------------------------------------------------------------
(* Python values *)

Unset == [t |-> "unset", v |-> 0]       \* an attribute never assigned
NoneV == [t |-> "none", v |-> 0]
StrV(s) == [t |-> "str", v |-> s]
IntV(i) == [t |-> "int", v |-> i]
FloatV(i) == [t |-> "float", v |-> i]
BoolV(b) == [t |-> "bool", v |-> b]
TensorV(shape, data) == [t |-> "tensor", v |-> [shape |-> shape, data |-> data]]
ListV(s) == [t |-> "list", v |-> s]
MapV(items) == [t |-> "map", v |-> items]
OtherV(repr) == [t |-> "other", v |-> repr]
\* in place of a tensor's element: data.cpu().item() raises RuntimeError
RaisesV == [t |-> "raises", v |-> "RuntimeError"]

Digits == <<"0", "1", "2", "3", "4", "5", "6", "7", "8", "9">>

RECURSIVE IntStr(_)
IntStr(n) == IF n < 10 THEN <<Digits[n + 1]>> ELSE IntStr(n \div 10) \o <<Digits[(n % 10) + 1]>>

RECURSIVE Prod(_)
Prod(shape) == IF shape = <<>> THEN 1 ELSE Head(shape) * Prod(Tail(shape))

RECURSIVE JoinDims(_)
JoinDims(shape) ==
    IF shape = <<>> THEN <<>>
    ELSE IF Len(shape) = 1 THEN IntStr(shape[1])
    ELSE IntStr(shape[1]) \o <<", ">> \o JoinDims(Tail(shape))

\* str(data.shape)
ShapeStr(shape) == <<"torch.Size([">> \o JoinDims(shape) \o <<"])">>

\* d[k] = v on a dict held as a sequence of <<key, value>> items
RECURSIVE DictSet(_, _, _)
DictSet(items, k, val) ==
    IF items = <<>> THEN << <<k, val>> >>
    ELSE IF Head(items)[1] = k THEN << <<k, val>> >> \o Tail(items)
    ELSE <<Head(items)>> \o DictSet(Tail(items), k, val)

RECURSIVE format_data_to_json_serializable(_)
RECURSIVE FormatItems(_, _)
RECURSIVE FormatList(_)
FormatItems(items, acc) ==
    IF items = <<>> THEN acc
    ELSE FormatItems(Tail(items),
                     DictSet(acc, format_data_to_json_serializable(Head(items)[1]),
                             format_data_to_json_serializable(Head(items)[2])))
\* FormatList without the recursive call
FormatList_Shallow(s) == s

FormatList(s) ==
    IF s = <<>> THEN <<>>
    ELSE <<format_data_to_json_serializable(Head(s))>> \o FormatList(Tail(s))
format_data_to_json_serializable(data) ==
    IF data.t = "none" THEN StrV(<<"None">>)
    ELSE IF data.t \in {"str", "int", "float", "bool"} THEN data
    ELSE IF data.t = "tensor" THEN
        IF data.v.shape = <<>> \/ Prod(data.v.shape) = 1
        THEN IF data.v.data[1] = RaisesV THEN StrV(<<>>)
             ELSE format_data_to_json_serializable(data.v.data[1])
        ELSE StrV(<<"Tensor of shape ">> \o ShapeStr(data.v.shape))
    ELSE IF data.t = "map" THEN MapV(FormatItems(data.v, <<>>))
    ELSE IF data.t = "list" THEN ListV(FormatList(data.v))
    ELSE StrV(data.v)

-----------------------------------------------------------------------------
(* fnmatch.fnmatch(name, pat) on POSIX, for patterns made of literal        *)
(* characters, '*' and '?'                                                  *)

RECURSIVE fnmatch(_, _)
fnmatch(name, pat) ==
    IF pat = <<>> THEN name = <<>>
    ELSE IF Head(pat) = "*" THEN
        \/ fnmatch(name, Tail(pat))
        \/ (name # <<>> /\ fnmatch(Tail(name), pat))
    ELSE IF Head(pat) = "?" THEN name # <<>> /\ fnmatch(Tail(name), Tail(pat))
    ELSE name # <<>> /\ Head(name) = Head(pat) /\ fnmatch(Tail(name), Tail(pat))

-----------------------------------------------------------------------------
(* The wall clock.  time.time() is followed on a grid of instants that holds, *)
(* around every hour after ClockBase, the readings that fall exactly on and   *)
(* just past the two thresholds of the logger.                                *)

Clock == {ClockBase + FailWindow * h + o :
            h \in 0..MaxHours, o \in {0, DefaultLogInterval, DefaultLogInterval + 1}}

Later(t) == {u \in Clock : u > t}

NextInstant(t) == CHOOSE u \in Later(t) : \A w \in Later(t) : u <= w

\* what the environment answers to one remote call: whether it succeeds, and
\* whether the clock has moved on when it returns
Answers == [ok : BOOLEAN, slow : BOOLEAN]

Returned(t, a) == IF a.slow /\ Later(t) # {} THEN NextInstant(t) ELSE t

-----------------------------------------------------------------------------
(* Keys *)

Prefix == <<"mosaicml/">>
Prefixed(key) == Prefix \o key

KeyA == <<"a">>
KeyAB == <<"a", "b">>
KeyTrainingProgress ==
    <<"t","r","a","i","n","i","n","g","_","p","r","o","g","r","e","s","s">>
KeyTrainingSubProgress ==
    <<"t","r","a","i","n","i","n","g","_","s","u","b","_","p","r","o","g","r","e","s","s">>
KeyModelInitializedTime ==
    <<"m","o","d","e","l","_","i","n","i","t","i","a","l","i","z","e","d","_","t","i","m","e">>
KeyWandbRunUrl == <<"w","a","n","d","b","/","r","u","n","_","u","r","l">>

-----------------------------------------------------------------------------
(* MosaicMLLogger.  A callback runs on the record Self of the object's        *)
(* fields; env is the sequence of answers the remote calls it makes will get. *)

Self(env) ==
    [enabled |-> _enabled, allowed_fails_left |-> allowed_fails_left,
     time_last_logged |-> time_last_logged,
     train_dataloader_len |-> train_dataloader_len,
     time_failed_count_adjusted |-> time_failed_count_adjusted,
     buffered_metadata |-> buffered_metadata, now |-> now, env |-> env,
     raised |-> "none", sent |-> <<>>, logged |-> logged,
     consecFails |-> consecFails, lastOkAt |-> lastOkAt,
     lastAdjustAt |-> lastAdjustAt, lastFailAt |-> lastFailAt,
     failsInWindow |-> failsInWindow]

EmptyDict == [k \in {} |-> NoneV]

\* dict[k] = val
Put(d, k, val) == (k :> val) @@ d

\* self.ignore_keys and any(fnmatch.fnmatch(key, pattern) for pattern in self.ignore_keys)
Ignored(key) ==
    /\ ignore_keys.t = "list"
    /\ ignore_keys.v # <<>>
    /\ \E i \in 1..Len(ignore_keys.v) : fnmatch(key, ignore_keys.v[i])

\* FlushDue with the comparison of the interval off by one
FlushDue_AtInterval(L, force_flush) ==
    L.enabled /\ (L.now - L.time_last_logged >= log_interval \/ force_flush)

\* FlushDue without regard for force_flush
FlushDue_Unforced(L, force_flush) ==
    L.enabled /\ L.now - L.time_last_logged > log_interval

\* the condition of _flush_metadata
FlushDue(L, force_flush) ==
    L.enabled /\ (L.now - L.time_last_logged > log_interval \/ force_flush)

\* Replenish with the comparison of the window off by one
Replenish_AtWindow(L, t) ==
    t - L.time_failed_count_adjusted >= FailWindow /\ L.allowed_fails_left < InitialFails

\* Replenish without the ceiling of the budget
Replenish_Unbounded(L, t) == t - L.time_failed_count_adjusted > FailWindow

\* the condition under which a successful flush gives one failure back
Replenish(L, t) ==
    t - L.time_failed_count_adjusted > FailWindow /\ L.allowed_fails_left < InitialFails

\* Exhausted with the comparison of the budget off by one
Exhausted_Below(left) == left < 0

\* the condition under which a failed flush disables the logger
Exhausted(left) == left <= 0

\* Flushed without the reset of the buffer
Flushed_Kept(buf) == buf

\* the buffer after a successful remote call
Flushed(buf) == EmptyDict

\* FlushOk with the whole budget given back
FlushOk_Resets(L, t) ==
    [L EXCEPT !.buffered_metadata = Flushed(@),
              !.time_last_logged = t,
              !.allowed_fails_left = InitialFails,
              !.time_failed_count_adjusted = t,
              !.logged = EmptyDict,
              !.consecFails = 0,
              !.lastOkAt = t,
              !.lastAdjustAt = t]

\* the body of the try block: the remote call returned at t
FlushOk(L, t) ==
    LET inc == Replenish(L, t) IN
    [L EXCEPT !.buffered_metadata = Flushed(@),
              !.time_last_logged = t,
              !.allowed_fails_left = IF inc THEN @ + 1 ELSE @,
              !.time_failed_count_adjusted = IF inc THEN t ELSE @,
              !.logged = EmptyDict,
              !.consecFails = 0,
              !.lastOkAt = t,
              !.lastAdjustAt = IF inc THEN t ELSE @]

\* FlushFailed taking the failure for a flush in time_last_logged
FlushFailed_Stamped(L, t) ==
    [L EXCEPT !.allowed_fails_left = @ - 1,
              !.time_failed_count_adjusted = t,
              !.time_last_logged = t,
              !.enabled = IF Exhausted(L.allowed_fails_left - 1) THEN FALSE ELSE @,
              !.consecFails = @ + 1,
              !.lastAdjustAt = t,
              !.lastFailAt = t,
              !.failsInWindow = IF L.lastFailAt # -1 /\ t - L.lastFailAt < FailWindow
                                THEN @ + 1 ELSE 1]

\* the except block: the remote call raised at t
FlushFailed(L, t) ==
    [L EXCEPT !.allowed_fails_left = @ - 1,
              !.time_failed_count_adjusted = t,
              !.enabled = IF Exhausted(L.allowed_fails_left - 1) THEN FALSE ELSE @,
              !.consecFails = @ + 1,
              !.lastAdjustAt = t,
              !.lastFailAt = t,
              !.failsInWindow = IF L.lastFailAt # -1 /\ t - L.lastFailAt < FailWindow
                                THEN @ + 1 ELSE 1]

_flush_metadata(L, force_flush) ==
    IF FlushDue(L, force_flush) THEN
        LET a == Head(L.env)
            t == Returned(L.now, a)
            R == IF a.ok THEN FlushOk(L, t) ELSE FlushFailed(L, t)
            call == [payload |-> L.buffered_metadata, ok |-> a.ok, force |-> force_flush,
                     at |-> L.now, returned |-> t,
                     before |-> L.allowed_fails_left, after |-> R.allowed_fails_left,
                     left |-> R.buffered_metadata,
                     expected |-> L.logged, lastOk |-> L.lastOkAt,
                     lastAdjust |-> L.lastAdjustAt]
        IN [R EXCEPT !.now = t, !.env = Tail(@), !.sent = Append(@, call)]
    ELSE L

\* Buffer without the ignore_keys filter
Buffer_Unfiltered(L, key, val) ==
    [L EXCEPT !.buffered_metadata =
                    Put(@, Prefixed(key), format_data_to_json_serializable(val)),
              !.logged = IF Ignored(key) THEN @ ELSE Put(@, Prefixed(key), val)]

\* one iteration of the loop of _log_metadata
Buffer(L, key, val) ==
    IF Ignored(key) THEN L
    ELSE [L EXCEPT !.buffered_metadata =
                        Put(@, Prefixed(key), format_data_to_json_serializable(val)),
                   !.logged = Put(@, Prefixed(key), val)]

RECURSIVE BufferAll(_, _)
BufferAll(L, items) ==
    IF items = <<>> THEN L
    ELSE BufferAll(Buffer(L, Head(items)[1], Head(items)[2]), Tail(items))

_log_metadata(L, metadata) ==
    IF L.enabled THEN _flush_metadata(BufferAll(L, metadata), FALSE) ELSE L

-----------------------------------------------------------------------------
(* The trainer's State, as far as the logger reads it *)

Duration(unit, value) == [unit |-> unit, value |-> value]

BaseState ==
    [max_duration |-> NoneV, token |-> 0, batch |-> 0, batch_in_epoch |-> 0,
     epoch |-> 0, dataloader_len |-> NoneV, callbacks |-> <<>>]

\* the states batch_end and fit_end are called with: one per branch of
\* _get_training_progress_metrics
ProgressStates ==
    { BaseState,
      [BaseState EXCEPT !.max_duration = Duration("tok", 2), !.token = 1],
      [BaseState EXCEPT !.max_duration = Duration("ba", 2), !.batch = 1],
      [BaseState EXCEPT !.max_duration = Duration("ep", 2), !.epoch = 1, !.batch = 3,
                        !.batch_in_epoch = 1],
      [BaseState EXCEPT !.max_duration = Duration("ep", 1), !.batch = 1,
                        !.batch_in_epoch = 1],
      [BaseState EXCEPT !.max_duration = Duration("ep", 1), !.epoch = 1, !.batch = 2],
      [BaseState EXCEPT !.max_duration = Duration("sp", 2)] }

DataloaderStates ==
    { BaseState, [BaseState EXCEPT !.dataloader_len = IntV(2)] }

WandB(run_url) == [class |-> "WandBLogger", run_url |-> run_url]
OtherCallback == [class |-> "Callback", run_url |-> NoneV]

LoadStates ==
    { [BaseState EXCEPT !.callbacks = cbs] :
        cbs \in { <<>>, <<OtherCallback>>, <<WandB(NoneV)>>, <<WandB(StrV(<<"url">>))>> } }

\* f'[{name}={cur}/{total}]'
Progress(name, cur, total) ==
    StrV(<<"[", name, "=">> \o IntStr(cur) \o <<"/">> \o IntStr(total) \o <<"]">>)

\* _get_training_progress_metrics, past its assertion: the dict as a sequence of items
_get_training_progress_metrics(L, state) ==
    IF ~L.enabled THEN <<>>
    ELSE IF state.max_duration.unit = "tok" THEN
        << <<KeyTrainingProgress, Progress("token", state.token, state.max_duration.value)>> >>
    ELSE IF state.max_duration.unit = "ba" THEN
        << <<KeyTrainingProgress, Progress("batch", state.batch, state.max_duration.value)>> >>
    ELSE IF state.max_duration.unit = "ep" THEN
        LET cur_batch == state.batch_in_epoch
            curr_progress ==
                IF state.epoch >= 1
                THEN Progress("batch", cur_batch,
                              (state.batch - state.batch_in_epoch) \div state.epoch)
                ELSE IF L.train_dataloader_len # NoneV
                THEN Progress("batch", cur_batch, L.train_dataloader_len.v)
                ELSE StrV(<<"[", "batch", "=">> \o IntStr(cur_batch) \o <<"]">>)
            cur_epoch == IF state.epoch < state.max_duration.value
                         THEN state.epoch + 1 ELSE state.epoch
        IN << <<KeyTrainingSubProgress, curr_progress>>,
              <<KeyTrainingProgress, Progress("epoch", cur_epoch, state.max_duration.value)>> >>
    ELSE <<>>

\* ProgressAsserts without the early return of a disabled logger
ProgressAsserts_Always(L, state) == state.max_duration = NoneV

\* assert state.max_duration is not None, which an enabled logger reaches
ProgressAsserts(L, state) == L.enabled /\ state.max_duration = NoneV

Raise(L, exc) == [L EXCEPT !.raised = exc]

-----------------------------------------------------------------------------
(* The callbacks of MosaicMLLogger *)

log_hyperparameters(L, hyperparameters) == _log_metadata(L, hyperparameters)

log_metrics(L, metrics) == _log_metadata(L, metrics)

RECURSIVE LogRunUrls(_, _)
LogRunUrls(L, callbacks) ==
    IF callbacks = <<>> THEN L
    ELSE LET callback == Head(callbacks)
             M == IF callback.class = "WandBLogger" /\ callback.run_url # NoneV
                  THEN _log_metadata(L, << <<KeyWandbRunUrl, callback.run_url>> >>)
                  ELSE L
         IN LogRunUrls(M, Tail(callbacks))

after_load(L, state) ==
    LogRunUrls(_log_metadata(L, << <<KeyModelInitializedTime, FloatV(L.now)>> >>),
               state.callbacks)

batch_start(L, state) ==
    IF state.dataloader_len # NoneV /\ L.enabled
    THEN [L EXCEPT !.train_dataloader_len = state.dataloader_len]
    ELSE L

batch_end(L, state) ==
    IF ProgressAsserts(L, state) THEN Raise(L, "AssertionError")
    ELSE _flush_metadata(_log_metadata(L, _get_training_progress_metrics(L, state)), FALSE)

epoch_end(L) == _flush_metadata(L, FALSE)

fit_end(L, state) ==
    IF ProgressAsserts(L, state) THEN Raise(L, "AssertionError")
    ELSE _flush_metadata(_log_metadata(L, _get_training_progress_metrics(L, state)), TRUE)

eval_end(L) == _flush_metadata(L, TRUE)

predict_end(L) == _flush_metadata(L, TRUE)

close(L) == _flush_metadata(L, TRUE)

-----------------------------------------------------------------------------
(* Inputs.  The logger is followed under two workloads: Spec follows the    *)
(* clock over hours with few distinct payloads, DataSpec follows more keys,  *)
(* values and ignore lists over the first minutes.                          *)

\* the dicts log_metrics and log_hyperparameters are called with
Metadatas ==
    { <<>>, << <<KeyA, NoneV>> >>, << <<KeyA, IntV(1)>> >>,
      << <<KeyA, TensorV(<<>>, <<IntV(2)>>)>>,
         <<KeyAB, TensorV(<<2>>, <<IntV(1), IntV(2)>>)>> >> }

FewMetadatas == { << <<KeyA, IntV(1)>> >> }

IgnoreKeyLists ==
    { NoneV, ListV(<<>>), ListV(<< <<"a", "?">> >>),
      ListV(<< <<"*", "s">>, <<"m", "*", "_", "t", "i", "m", "e">> >>) }

FewIgnoreKeyLists == { ListV(<< <<"m", "*">> >>) }

FewProgressStates ==
    { s \in ProgressStates : s.max_duration = NoneV \/ s.max_duration.unit = "sp" }

DataProgressStates ==
    { s \in ProgressStates : s.max_duration = NoneV \/ (s.max_duration.unit = "ep" /\ s.epoch = 0) }

FewLoadStates == { s \in LoadStates : \A i \in 1..Len(s.callbacks) : s.callbacks[i].run_url = NoneV }

FastAnswers == { a \in Answers : ~a.slow }

FirstMinutes == { ClockBase, ClockBase + DefaultLogInterval + 1 }

Envs(n, answers) == [1..n -> answers]

-----------------------------------------------------------------------------
(* MosaicMLLogger.__init__ *)

Construct(ignore_lists) ==
    /\ global_rank \in {0, 1}
    /\ env_run_name \in {NoneV, StrV(<<"run">>)}
    /\ log_interval = DefaultLogInterval
    /\ ignore_keys \in ignore_lists
    /\ now = ClockBase
    /\ _enabled = (global_rank = 0 /\ env_run_name # NoneV)
    /\ IF global_rank = 0
       THEN /\ allowed_fails_left = InitialFails
            /\ time_last_logged = 0
            /\ train_dataloader_len = NoneV
            /\ time_failed_count_adjusted = 0
            /\ buffered_metadata = EmptyDict
            /\ run_name = env_run_name
       ELSE /\ allowed_fails_left = Unset
            /\ time_last_logged = Unset
            /\ train_dataloader_len = Unset
            /\ time_failed_count_adjusted = Unset
            /\ buffered_metadata = Unset
            /\ run_name = Unset
    /\ lastOp = "__init__"
    /\ raised = "none"
    /\ sent = <<>>
    /\ logged = EmptyDict
    /\ consecFails = 0
    /\ lastOkAt = -1
    /\ lastAdjustAt = -1
    /\ lastFailAt = -1
    /\ failsInWindow = 0

\* the callback op has run and left the object as R; the answers it was
\* handed and made no call for do not distinguish two runs
Ran(op, R) ==
    /\ \A i \in 1..Len(R.env) : R.env[i] = [ok |-> TRUE, slow |-> FALSE]
    /\ _enabled' = R.enabled
    /\ allowed_fails_left' = R.allowed_fails_left
    /\ time_last_logged' = R.time_last_logged
    /\ train_dataloader_len' = R.train_dataloader_len
    /\ time_failed_count_adjusted' = R.time_failed_count_adjusted
    /\ buffered_metadata' = R.buffered_metadata
    /\ now' = R.now
    /\ lastOp' = op
    /\ raised' = R.raised
    /\ sent' = R.sent
    /\ logged' = R.logged
    /\ consecFails' = R.consecFails
    /\ lastOkAt' = R.lastOkAt
    /\ lastAdjustAt' = R.lastAdjustAt
    /\ lastFailAt' = R.lastFailAt
    /\ failsInWindow' = R.failsInWindow
    /\ UNCHANGED <<global_rank, env_run_name, log_interval, ignore_keys, run_name>>
    /\ UNCHANGED evalVars

LogHyperparametersOf(dicts, answers) ==
    \E hyperparameters \in dicts, env \in Envs(1, answers) :
        \E R \in {log_hyperparameters(Self(env), hyperparameters)} : Ran("log_hyperparameters", R)

LogMetricsOf(dicts, answers) ==
    \E metrics \in dicts, env \in Envs(1, answers) :
        \E R \in {log_metrics(Self(env), metrics)} : Ran("log_metrics", R)

AfterLoadOf(states, answers) ==
    \E state \in states, env \in Envs(2, answers) :
        \E R \in {after_load(Self(env), state)} : Ran("after_load", R)

BatchStartOf(states) ==
    \E state \in states : \E R \in {batch_start(Self(<<>>), state)} : Ran("batch_start", R)

BatchEndOf(states, answers) ==
    \E state \in states, env \in Envs(2, answers) :
        \E R \in {batch_end(Self(env), state)} : Ran("batch_end", R)

EpochEndOf(answers) ==
    \E env \in Envs(1, answers) : \E R \in {epoch_end(Self(env))} : Ran("epoch_end", R)

FitEndOf(states, answers) ==
    \E state \in states, env \in Envs(2, answers) :
        \E R \in {fit_end(Self(env), state)} : Ran("fit_end", R)

EvalEndOf(answers) ==
    \E env \in Envs(1, answers) : \E R \in {eval_end(Self(env))} : Ran("eval_end", R)

PredictEndOf(answers) ==
    \E env \in Envs(1, answers) : \E R \in {predict_end(Self(env))} : Ran("predict_end", R)

CloseOf(answers) ==
    \E env \in Envs(1, answers) : \E R \in {close(Self(env))} : Ran("close", R)

\* time passes between two callbacks
TickIn(clock) ==
    /\ \E t \in Later(now) \cap clock : now' = t
    /\ lastOp' = "tick"
    /\ raised' = "none"
    /\ sent' = <<>>
    /\ UNCHANGED <<global_rank, env_run_name, log_interval, ignore_keys, _enabled,
                   run_name, allowed_fails_left, time_last_logged, train_dataloader_len,
                   time_failed_count_adjusted, buffered_metadata, logged, consecFails,
                   lastOkAt, lastAdjustAt, lastFailAt, failsInWindow>>
    /\ UNCHANGED evalVars

-----------------------------------------------------------------------------
(* EvalOutputLogging.  Cells of a row are Python values; a response is what   *)
(* a metric's format_response_cache returns.                                  *)

Min(a, b) == IF a <= b THEN a ELSE b

\* bool(value)
Truthy(value) ==
    IF value.t = "none" THEN FALSE
    ELSE IF value.t = "bool" THEN value.v
    ELSE IF value.t \in {"int", "float"} THEN value.v # 0
    ELSE IF value.t \in {"str", "list", "map"} THEN value.v # <<>>
    ELSE TRUE

\* columns.index(name)
Index(columns, name) ==
    CHOOSE i \in 1..Len(columns) :
        columns[i] = name /\ \A j \in 1..(i - 1) : columns[j] # name

Contains(columns, name) == \E i \in 1..Len(columns) : columns[i] = name

\* KeepRow with the flag read the wrong way round
KeepRow_Inverted(only_incorrect, row, correct_col) ==
    only_incorrect \/ ~Truthy(row[correct_col])

\* KeepRow with the filter applied whatever the flag
KeepRow_Always(only_incorrect, row, correct_col) == ~Truthy(row[correct_col])

\* whether the filter of eval_end keeps a row
KeepRow(only_incorrect, row, correct_col) ==
    ~only_incorrect \/ ~Truthy(row[correct_col])

RECURSIVE Filtered(_, _, _)
Filtered(only_incorrect, rows, correct_col) ==
    IF rows = <<>> THEN <<>>
    ELSE IF KeepRow(only_incorrect, Head(rows), correct_col)
         THEN <<Head(rows)>> \o Filtered(only_incorrect, Tail(rows), correct_col)
         ELSE Filtered(only_incorrect, Tail(rows), correct_col)

\* Subsampled with 0 taken for a sample size
Subsampled_FromZero(n) == n >= 0

\* whether eval_end draws a sample
Subsampled(n) == n > 0

\* random.sample(rows, k) draws k positions of rows, none twice, in any order
Draws(n, k) == { o \in [1..k -> 1..n] : \A i, j \in 1..k : o[i] = o[j] => i = j }

Sample(rows, draw) == [i \in 1..Len(draw) |-> rows[draw[i]]]

\* the log_table calls of one metric, a destination after the other
RECURSIVE LogTable(_, _, _, _, _)
LogTable(dests, m, columns, rows, name) ==
    IF dests = <<>> THEN <<>>
    ELSE (IF Head(dests) # "ConsoleLogger"
          THEN << [destination |-> Head(dests), metric |-> m, columns |-> columns,
                   rows |-> rows, name |-> name] >>
          ELSE <<>>)
         \o LogTable(Tail(dests), m, columns, rows, name)

\* the size of the sample eval_end asks for
SampleSize(rows, n) == Min(Len(rows), n)

\* the body of the loop of eval_end for the m-th metric of the benchmark: the
\* outcomes it can have, one per sample random.sample can draw
EvalMetric(E, m, metric, response, benchmark) ==
    LET V == [E EXCEPT !.visited = Append(@, m)] IN
    IF ~metric.format_response_cache THEN {V}
    ELSE IF response.rows.t = "none" THEN {[V EXCEPT !.error = "TypeError"]}
    ELSE IF response.columns.t = "none" THEN {V}
    ELSE IF ~Contains(response.columns.v, "correct") THEN {[V EXCEPT !.error = "ValueError"]}
    ELSE
        LET columns == response.columns.v
            correct_col == Index(columns, "correct")
            kept == Filtered(print_only_incorrect, response.rows.v, correct_col)
            samples == IF Subsampled(subset_sample)
                       THEN { Sample(kept, draw) :
                                draw \in Draws(Len(kept), SampleSize(kept, subset_sample)) }
                       ELSE {kept}
        IN { [V EXCEPT !.calls = @ \o LogTable(destinations, m, columns, rows,
                                               StrV(<<"icl_outputs/">> \o benchmark.v)),
                       !.table = (benchmark :> <<columns, rows>>) @@ @,
                       !.keys = IF benchmark \in DOMAIN V.table
                                THEN @ ELSE Append(@, benchmark),
                       !.stored_by = Append(@, m)] : rows \in samples }

\* EvalMetrics going on to the next metric after one has raised
RECURSIVE EvalMetrics_KeepsGoing(_, _, _, _, _)
EvalMetrics_KeepsGoing(Es, m, metrics, resps, benchmark) ==
    IF m > Len(metrics) THEN Es
    ELSE EvalMetrics_KeepsGoing(
             UNION { EvalMetric(E, m, metrics[m], resps[m], benchmark) : E \in Es },
             m + 1, metrics, resps, benchmark)

\* the loop of eval_end from the m-th metric on, from any of the outcomes Es
RECURSIVE EvalMetrics(_, _, _, _, _)
EvalMetrics(Es, m, metrics, resps, benchmark) ==
    IF m > Len(metrics) THEN Es
    ELSE EvalMetrics(UNION { IF E.error # "none" THEN {E}
                             ELSE EvalMetric(E, m, metrics[m], resps[m], benchmark) :
                             E \in Es },
                     m + 1, metrics, resps, benchmark)

\* prep_response_cache: the flags of the benchmark's metrics afterwards
prep_response_cache(flags, metrics, cache) ==
    [m \in 1..Len(metrics) |-> IF metrics[m].set_response_cache THEN cache ELSE flags[m]]

\* whether eval_end enters its two outer conditions
Logs(dataloader) == dataloader.dataset = "icl" /\ dataloader.tokenizer

\* EvalEnded switching the caches off after an exception too
EvalEnded_Always(D, benchmark) ==
    [D EXCEPT !.response_cache =
                (benchmark :> prep_response_cache(@[benchmark],
                                                  eval_metrics[benchmark], FALSE))
                @@ @]

\* the last lines of eval_end, which an exception skips
EvalEnded(D, benchmark) ==
    IF D.error # "none" THEN D
    ELSE [D EXCEPT !.response_cache =
                     (benchmark :> prep_response_cache(@[benchmark],
                                                       eval_metrics[benchmark], FALSE))
                     @@ @]

\* eval_end on the record E of the callback: the outcomes it can have
EvalOutputLogging_eval_end(E, state, resps) ==
    IF state.dataloader.class # "DataLoader" THEN {[E EXCEPT !.error = "AssertionError"]}
    ELSE
        LET benchmark == state.dataloader_label IN
        IF Logs(state.dataloader)
        THEN IF benchmark.t = "none"
             THEN {[E EXCEPT !.error = "AssertionError"]}
             ELSE { EvalEnded(D, benchmark) :
                      D \in EvalMetrics({E}, 1, eval_metrics[benchmark], resps, benchmark) }
        ELSE {[E EXCEPT !.error = "UnboundLocalError"]}

\* eval_start on the record E of the callback
EvalOutputLogging_eval_start(E, state) ==
    LET benchmark == state.dataloader_label IN
    [E EXCEPT !.response_cache =
                (benchmark :> prep_response_cache(@[benchmark], eval_metrics[benchmark], TRUE))
                @@ @]

-----------------------------------------------------------------------------
(* write_tables_to_output_dir.  A frame is a pandas DataFrame: its columns  *)
(* and its rows, each row a sequence of cells under the columns.  A         *)
(* temporary directory is "absent", an empty "dir", or a dir with a "file". *)

BytesV(s) == [t |-> "bytes", v |-> s]
NaN == [t |-> "nan", v |-> 0]

\* e.encode('unicode_escape') if isinstance(e, str) else e, for plain characters
Encode(cell) == IF cell.t = "str" THEN BytesV(cell.v) ELSE cell

\* df['benchmark'] = benchmark, on a row of a frame with columns cols
WithBenchmark(cols, row, benchmark) ==
    IF Contains(cols, "benchmark")
    THEN [row EXCEPT ![Index(cols, "benchmark")] = benchmark]
    ELSE Append(row, benchmark)

\* the frame of one table entry, with its benchmark column
Frame(cols, rows, benchmark) ==
    [columns |-> IF Contains(cols, "benchmark") THEN cols ELSE Append(cols, "benchmark"),
     rows |-> [i \in 1..Len(rows) |->
                  WithBenchmark(cols, [j \in 1..Len(rows[i]) |-> Encode(rows[i][j])],
                                benchmark)]]

\* a row of a frame with columns cols, under the columns all of the concatenation
Align(all, cols, row) ==
    [i \in 1..Len(all) |->
        IF Contains(cols, all[i]) THEN row[Index(cols, all[i])] ELSE NaN]

\* pd.concat([full_df, df], ignore_index=True)
Concat(full_df, df) ==
    LET all == full_df.columns
               \o SelectSeq(df.columns, LAMBDA c : ~Contains(full_df.columns, c))
    IN [columns |-> all,
        rows |-> [i \in 1..Len(full_df.rows) |-> Align(all, full_df.columns, full_df.rows[i])]
                 \o [i \in 1..Len(df.rows) |-> Align(all, df.columns, df.rows[i])]]

\* the loop of write_tables_to_output_dir over the entries of the table
RECURSIVE FullFrame(_, _, _)
FullFrame(full_df, tbl, keys) ==
    IF keys = <<>> THEN full_df
    ELSE FullFrame(Concat(full_df, Frame(tbl[Head(keys)][1], tbl[Head(keys)][2], Head(keys))),
                   tbl, Tail(keys))

\* a cell as to_csv writes it
CsvCell(cell) ==
    IF cell.t = "bytes" THEN StrV(<<"b'">> \o cell.v \o <<"'">>)
    ELSE IF cell.t = "bool" THEN StrV(<<IF cell.v THEN "True" ELSE "False">>)
    ELSE IF cell.t = "nan" THEN StrV(<<>>)
    ELSE cell

\* full_df.to_csv(f, sep='\t', index=False): the header and the lines of the file
to_csv(full_df) ==
    [columns |-> full_df.columns,
     rows |-> [i \in 1..Len(full_df.rows) |->
                  [j \in 1..Len(full_df.rows[i]) |-> CsvCell(full_df.rows[i][j])]]]

\* the steps of write_tables_to_output_dir that the file system or the object
\* store can fail, and what the destination resolves to when it resolves
WriteSteps == {"mkdir", "open", "to_csv", "resolve", "upload", "copy", "remove", "rmdir"}

WriteAnswers ==
    { [fails |-> f, resolves |-> "none"] : f \in {"mkdir", "open", "to_csv", "resolve"} }
    \cup { [fails |-> f, resolves |-> "store"] : f \in {"none", "upload", "remove", "rmdir"} }
    \cup { [fails |-> f, resolves |-> "none"] : f \in {"none", "copy", "remove", "rmdir"} }

\* the exception of a step that fails
Failed(E, step) ==
    [E EXCEPT !.error = IF step \in {"resolve", "upload"} THEN "Exception" ELSE "OSError",
              !.failed_in = step]

\* _write with the sinks swapped
_write_Swapped(E, destination_path, env) ==
    IF env.fails = "resolve" THEN Failed(E, "resolve")
    ELSE
        LET O == [E EXCEPT !.resolved = env.resolves] IN
        IF env.resolves # "store"
        THEN IF env.fails = "upload" THEN Failed(O, "upload")
             ELSE [O EXCEPT !.delivered =
                       Append(@, [sink |-> "upload", path |-> destination_path,
                                  content |-> E.written])]
        ELSE IF env.fails = "copy" THEN Failed(O, "copy")
             ELSE [O EXCEPT !.delivered =
                       Append(@, [sink |-> "copy", path |-> destination_path,
                                  content |-> E.written])]

\* _write(destination_path, src_file), src_file holding E.written
_write(E, destination_path, env) ==
    IF env.fails = "resolve" THEN Failed(E, "resolve")
    ELSE
        LET O == [E EXCEPT !.resolved = env.resolves] IN
        IF env.resolves = "store"
        THEN IF env.fails = "upload" THEN Failed(O, "upload")
             ELSE [O EXCEPT !.delivered =
                       Append(@, [sink |-> "upload", path |-> destination_path,
                                  content |-> E.written])]
        ELSE IF env.fails = "copy" THEN Failed(O, "copy")
             ELSE [O EXCEPT !.delivered =
                       Append(@, [sink |-> "copy", path |-> destination_path,
                                  content |-> E.written])]

write_tables_to_output_dir(E, batch, env) ==
    LET tmp_dir == E.hash + 1
        H == [E EXCEPT !.hash = tmp_dir]
        file_name == <<"eval-outputs-ba">> \o IntStr(batch) \o <<".tsv">>
    IN
    IF H.tmp[tmp_dir] = "absent" /\ env.fails = "mkdir" THEN Failed(H, "mkdir")
    ELSE
        LET D == [H EXCEPT !.tmp[tmp_dir] = IF @ = "absent" THEN "dir" ELSE @]
            full_df == FullFrame([columns |-> <<>>, rows |-> <<>>], D.table, D.keys)
        IN
        IF env.fails = "open" THEN Failed(D, "open")
        ELSE IF env.fails = "to_csv"
             THEN Failed([D EXCEPT !.tmp[tmp_dir] = "file"], "to_csv")
        ELSE
            LET F == [D EXCEPT !.tmp[tmp_dir] = "file", !.written = to_csv(full_df)]
                W == _write(F, output_directory.v \o <<"/">> \o file_name, env)
            IN
            IF W.error # "none" THEN W
            ELSE IF env.fails = "remove" THEN Failed(W, "remove")
            ELSE
                LET R == [W EXCEPT !.tmp[tmp_dir] = "dir"] IN
                IF env.fails = "rmdir" THEN Failed(R, "rmdir")
                ELSE [R EXCEPT !.tmp[tmp_dir] = "absent"]

\* eval_after_all leaving the table as it is
eval_after_all_KeepsTable(E, batch, env) == write_tables_to_output_dir(E, batch, env)

eval_after_all(E, batch, env) ==
    LET W == write_tables_to_output_dir(E, batch, env) IN
    IF W.error # "none" THEN W ELSE [W EXCEPT !.table = EmptyDict, !.keys = <<>>]

eval_standalone_end(E, batch, env) ==
    LET W == write_tables_to_output_dir(E, batch, env) IN
    IF W.error # "none" THEN W ELSE [W EXCEPT !.table = EmptyDict, !.keys = <<>>]

-----------------------------------------------------------------------------
(* The trainer's State and Logger, as far as EvalOutputLogging reads them *)

Benchmarks == { StrV(<<"lm">>), StrV(<<"qa">>) }

Metric(has_format, has_set) ==
    [format_response_cache |-> has_format, set_response_cache |-> has_set]

\* the metrics of each benchmark: two that format their cache for "lm"; one
\* that cannot and one that can but has no switch for "qa"
EvalMetricsOf(benchmark) ==
    IF benchmark = StrV(<<"lm">>)
    THEN << Metric(TRUE, TRUE), Metric(TRUE, TRUE) >>
    ELSE << Metric(FALSE, TRUE), Metric(TRUE, FALSE) >>

\* the positions of a benchmark's metrics
MetricIds == DOMAIN EvalMetricsOf(StrV(<<"lm">>))

Dataloaders ==
    { [class |-> "DataLoader", dataset |-> "icl", tokenizer |-> TRUE],
      [class |-> "DataLoader", dataset |-> "icl", tokenizer |-> FALSE],
      [class |-> "DataLoader", dataset |-> "other", tokenizer |-> TRUE],
      [class |-> "DataLoader", dataset |-> "none", tokenizer |-> FALSE],
      [class |-> "None", dataset |-> "none", tokenizer |-> FALSE] }

\* state.dataloader where the callback does not read it
NoDataloader == [class |-> "None", dataset |-> "none", tokenizer |-> FALSE]

EvalState(dataloader, label) == [dataloader |-> dataloader, dataloader_label |-> label]

\* the pair format_response_cache returns: each a list, or None
Response(columns, rows) == [columns |-> columns, rows |-> rows]

NoResponse == Response(NoneV, NoneV)

PromptFirst == ListV(<<"prompt", "correct">>)
CorrectFirst == ListV(<<"correct", "prompt">>)
NoCorrect == ListV(<<"prompt", "output">>)

\* the rows a metric returns under columns PromptFirst: a right and a wrong answer
RowValues == { <<StrV(<<"p">>), BoolV(TRUE)>>, <<StrV(<<"q">>), BoolV(FALSE)>> }

RECURSIVE RowLists(_)
RowLists(n) ==
    IF n = 0 THEN { <<>> }
    ELSE RowLists(n - 1)
         \cup { Append(rows, row) : rows \in { l \in RowLists(n - 1) : Len(l) = n - 1 },
                                    row \in RowValues }

\* what the second metric of a benchmark returns
Responses ==
    { Response(PromptFirst, ListV(rows)) : rows \in RowLists(MaxRows) }
    \cup { NoResponse,
           Response(NoneV, ListV(<<>>)),
           Response(NoCorrect, ListV(<< <<StrV(<<"p">>), StrV(<<"o">>)>> >>)),
           Response(CorrectFirst,
                    ListV(<< <<IntV(1), StrV(<<"p">>)>>, <<IntV(0), StrV(<<"q">>)>>,
                             <<NoneV, StrV(<<"r">>)>> >>)) }

\* what the first metric of a benchmark returns
FirstResponses ==
    { NoResponse,
      Response(NoCorrect, ListV(<< <<StrV(<<"p">>), StrV(<<"o">>)>> >>)),
      Response(PromptFirst,
               ListV(<< <<StrV(<<"q">>), BoolV(FALSE)>>, <<StrV(<<"p">>), BoolV(TRUE)>> >>)) }

ResponsesOf(m) == IF m = 1 THEN FirstResponses ELSE Responses

-----------------------------------------------------------------------------
(* EvalOutputLogging.__init__ and the callbacks *)

\* os.getcwd()
Getcwd == StrV(<<"/cwd">>)

\* the output_directory argument: left out, empty, or an object store's URI
OutputDirectories == { NoneV, StrV(<<>>), StrV(<<"s3://bucket/out">>) }

\* the temporary directories a run can come to use, by number of hash updates
Digests == 1..MaxWrites

EvalConstructIn(flags, sizes, dirs) ==
    /\ print_only_incorrect \in flags
    /\ subset_sample \in sizes
    /\ table = EmptyDict
    /\ table_keys = <<>>
    /\ \E arg \in dirs : output_directory = IF Truthy(arg) THEN arg ELSE Getcwd
    /\ hash = 0
    /\ tmp_dirs = [d \in Digests |-> "absent"]
    /\ written = NoneV
    /\ delivered = <<>>
    /\ failed_in = "none"
    /\ resolved = "unasked"
    /\ stored_since = EmptyDict
    /\ eval_metrics = [b \in Benchmarks |-> EvalMetricsOf(b)]
    /\ response_cache = [b \in Benchmarks |-> [m \in MetricIds |-> FALSE]]
    /\ destinations = <<"WandBLogger", "ConsoleLogger", "MLFlowLogger">>
    /\ evalOp = "__init__"
    /\ evalError = "none"
    /\ evalLabel = NoneV
    /\ evalDataloader = NoDataloader
    /\ responses = [m \in MetricIds |-> NoResponse]
    /\ visited = <<>>
    /\ stored_by = <<>>
    /\ log_table_calls = <<>>

EvalConstruct(flags, sizes) == EvalConstructIn(flags, sizes, {NoneV})

EvalSelf ==
    [table |-> table, response_cache |-> response_cache, error |-> "none",
     calls |-> <<>>, visited |-> <<>>, stored_by |-> <<>>, keys |-> table_keys,
     hash |-> hash, tmp |-> tmp_dirs, written |-> NoneV, delivered |-> <<>>,
     failed_in |-> "none", resolved |-> "unasked"]

\* what eval_end has stored since the last write that returned, per benchmark,
\* as its log_table calls tell
StoredSince(op, label, E) ==
    IF op \in {"eval_after_all", "eval_standalone_end"}
    THEN IF E.error = "none" THEN EmptyDict ELSE stored_since
    ELSE IF op = "eval_end" /\ E.stored_by # <<>> /\ E.calls # <<>>
         THEN (label :> [columns |-> E.calls[Len(E.calls)].columns,
                         rows |-> E.calls[Len(E.calls)].rows]) @@ stored_since
         ELSE stored_since

\* the callback op has run on state and left the object as E; resps is what
\* the metrics returned
EvalRan(op, state, resps, E) ==
    /\ table' = E.table
    /\ response_cache' = E.response_cache
    /\ evalOp' = op
    /\ evalError' = E.error
    /\ evalLabel' = state.dataloader_label
    /\ evalDataloader' = state.dataloader
    /\ responses' = resps
    /\ visited' = E.visited
    /\ stored_by' = E.stored_by
    /\ log_table_calls' = E.calls
    /\ table_keys' = E.keys
    /\ hash' = E.hash
    /\ tmp_dirs' = E.tmp
    /\ written' = E.written
    /\ delivered' = E.delivered
    /\ failed_in' = E.failed_in
    /\ resolved' = E.resolved
    /\ stored_since' = StoredSince(op, state.dataloader_label, E)
    /\ UNCHANGED <<print_only_incorrect, subset_sample, eval_metrics, destinations,
                   output_directory>>
    /\ UNCHANGED loggerVars

NoResponses == [m \in MetricIds |-> NoResponse]

\* the answers of the metrics the loop asked are all that distinguishes two runs
Asked(E, label, resps) ==
    \A m \in MetricIds :
        \/ \E i \in 1..Len(E.visited) :
               E.visited[i] = m /\ eval_metrics[label][m].format_response_cache
        \/ resps[m] = NoResponse

OutputsEvalStart ==
    \E label \in Benchmarks :
        \E E \in {EvalOutputLogging_eval_start(EvalSelf, EvalState(NoDataloader, label))} :
            EvalRan("eval_start", EvalState(NoDataloader, label), NoResponses, E)

\* eval_end on a dataloader it logs the outputs of, the metrics answering
\* with one of firsts and one of seconds
OutputsEvalEndOf(firsts, seconds) ==
    \E dataloader \in { d \in Dataloaders : Logs(d) }, label \in Benchmarks,
       first \in firsts, second \in seconds :
        LET resps == <<first, second>> IN
        \E E \in EvalOutputLogging_eval_end(EvalSelf, EvalState(dataloader, label), resps) :
            Asked(E, label, resps)
            /\ EvalRan("eval_end", EvalState(dataloader, label), resps, E)

\* eval_end on any other dataloader, or without a label
OtherEvalEnd ==
    \E dataloader \in Dataloaders, label \in Benchmarks \cup {NoneV} :
        /\ ~(Logs(dataloader) /\ label \in Benchmarks)
        /\ \E E \in EvalOutputLogging_eval_end(EvalSelf, EvalState(dataloader, label),
                                               NoResponses) :
               EvalRan("eval_end", EvalState(dataloader, label), NoResponses, E)

OutputsEvalEnd == OutputsEvalEndOf(FirstResponses, Responses)

\* state.timestamp.batch.value when the table is written
WriteBatches == {1, 12}

EvalAfterAll ==
    \E batch \in WriteBatches, env \in WriteAnswers :
        /\ hash < MaxWrites
        /\ \E E \in {eval_after_all(EvalSelf, batch, env)} :
               EvalRan("eval_after_all", EvalState(NoDataloader, NoneV), NoResponses, E)

EvalStandaloneEnd ==
    \E batch \in WriteBatches, env \in WriteAnswers :
        /\ hash < MaxWrites
        /\ \E E \in {eval_standalone_end(EvalSelf, batch, env)} :
               EvalRan("eval_standalone_end", EvalState(NoDataloader, NoneV),
                       NoResponses, E)

-----------------------------------------------------------------------------
(* The logger over hours *)

\* the callback, when it is the logger that is followed
EvalIdle == EvalConstruct({FALSE}, {-1})

Init == Construct(FewIgnoreKeyLists) /\ EvalIdle

LogHyperparameters == LogHyperparametersOf(FewMetadatas, Answers)
LogMetrics == LogMetricsOf(FewMetadatas, Answers)
AfterLoad == AfterLoadOf(FewLoadStates, Answers)
BatchStart == BatchStartOf({BaseState})
BatchEnd == BatchEndOf(FewProgressStates, Answers)
EpochEnd == EpochEndOf(Answers)
FitEnd == FitEndOf(FewProgressStates, Answers)
EvalEnd == EvalEndOf(Answers)
PredictEnd == PredictEndOf(Answers)
Close == CloseOf(Answers)
Tick == TickIn(Clock)

Next ==
    \/ LogHyperparameters
    \/ LogMetrics
    \/ AfterLoad
    \/ BatchStart
    \/ BatchEnd
    \/ EpochEnd
    \/ FitEnd
    \/ EvalEnd
    \/ PredictEnd
    \/ Close
    \/ Tick

Spec == Init /\ [][Next]_vars

-----------------------------------------------------------------------------
(* The logger over its first minutes, with many payloads *)

DataInit == Construct(IgnoreKeyLists) /\ EvalIdle

DataLogHyperparameters == LogHyperparametersOf(Metadatas, FastAnswers)
DataLogMetrics == LogMetricsOf(Metadatas, FastAnswers)
DataAfterLoad == AfterLoadOf({BaseState}, FastAnswers)
DataBatchStart == BatchStartOf(DataloaderStates)
DataBatchEnd == BatchEndOf(DataProgressStates, FastAnswers)
DataEpochEnd == EpochEndOf(FastAnswers)
DataFitEnd == FitEndOf(DataProgressStates, FastAnswers)
DataEvalEnd == EvalEndOf(FastAnswers)
DataPredictEnd == PredictEndOf(FastAnswers)
DataClose == CloseOf(FastAnswers)
DataTick == TickIn(FirstMinutes)

DataNext ==
    \/ DataLogHyperparameters
    \/ DataLogMetrics
    \/ DataAfterLoad
    \/ DataBatchStart
    \/ DataBatchEnd
    \/ DataEpochEnd
    \/ DataFitEnd
    \/ DataEvalEnd
    \/ DataPredictEnd
    \/ DataClose
    \/ DataTick

DataSpec == DataInit /\ [][DataNext]_vars

-----------------------------------------------------------------------------
(* The logger over values of every kind format_data_to_json_serializable tells *)
(* apart, each logged under the key a                                          *)

FormatMetadatas ==
    { << <<KeyA, value>> >> :
        value \in { NoneV, StrV(<<"s">>), IntV(1), FloatV(2), BoolV(TRUE),
                    TensorV(<<>>, <<IntV(2)>>),
                    TensorV(<<1, 1>>, <<FloatV(3)>>),
                    TensorV(<<1>>, <<RaisesV>>),
                    TensorV(<<0>>, <<>>),
                    TensorV(<<2>>, <<IntV(1), IntV(2)>>),
                    TensorV(<<2, 13>>, <<>>),
                    ListV(<<NoneV, TensorV(<<>>, <<BoolV(FALSE)>>), ListV(<<NoneV>>)>>),
                    MapV(<< <<NoneV, TensorV(<<1>>, <<IntV(4)>>)>>,
                            <<StrV(<<"k">>), MapV(<< <<IntV(1), NoneV>> >>)>>,
                            <<StrV(<<"None">>), ListV(<<>>)>> >>),
                    OtherV(<<"object">>) } }

FormatInit == Construct({NoneV}) /\ EvalIdle

FormatNext ==
    \/ LogMetricsOf(FormatMetadatas, FastAnswers)
    \/ TickIn(FirstMinutes)

FormatSpec == FormatInit /\ [][FormatNext]_vars

-----------------------------------------------------------------------------
(* The callback over its eval_end calls, beside a logger of a rank other than 0 *)

SubsetSamples == {-1, 0, 1}

EvalInit ==
    /\ Construct({NoneV})
    /\ global_rank = 1
    /\ env_run_name = NoneV
    /\ EvalConstruct(BOOLEAN, SubsetSamples)

EvalNext ==
    \/ OutputsEvalEnd
    \/ OtherEvalEnd

EvalSpec == EvalInit /\ [][EvalNext]_vars

-----------------------------------------------------------------------------
(* The callback over evaluation phases, each ended by a write of the table *)

WriteFirstResponses ==
    { NoResponse,
      Response(PromptFirst,
               ListV(<< <<StrV(<<"q">>), BoolV(FALSE)>>, <<StrV(<<"p">>), BoolV(TRUE)>> >>)) }

WriteResponses ==
    { Response(NoneV, ListV(<<>>)),
      Response(NoCorrect, ListV(<< <<StrV(<<"p">>), StrV(<<"o">>)>> >>)),
      Response(CorrectFirst, ListV(<< <<BoolV(FALSE), StrV(<<"r">>)>> >>)),
      Response(ListV(<<"correct", "output">>), ListV(<< <<BoolV(TRUE), StrV(<<"o">>)>> >>)) }

WriteInit ==
    /\ Construct({NoneV})
    /\ global_rank = 1
    /\ env_run_name = NoneV
    /\ EvalConstructIn({FALSE}, {-1}, OutputDirectories)

WriteEvalEnd == OutputsEvalEndOf(WriteFirstResponses, WriteResponses)

WriteNext ==
    \/ WriteEvalEnd
    \/ EvalAfterAll
    \/ EvalStandaloneEnd

WriteSpec == WriteInit /\ [][WriteNext]_vars

-----------------------------------------------------------------------------
(* The callback from eval_start to eval_end, the metrics giving few responses *)

CacheNext ==
    \/ OutputsEvalStart
    \/ WriteEvalEnd
    \/ OtherEvalEnd

CacheSpec == EvalInit /\ [][CacheNext]_vars

-----------------------------------------------------------------------------
(* Claims about MosaicMLLogger *)

Calls == 1..Len(sent)

\* the key a buffered entry was logged under
Unprefixed(entry) == Tail(entry)

\* key matches at least one pattern of ignore_keys
MatchesIgnoreKeys(key) ==
    /\ ignore_keys.t = "list"
    /\ \E p \in 1..Len(ignore_keys.v) : fnmatch(key, ignore_keys.v[p])

\* C1: after 3 consecutive failed remote calls the logger is disabled, and a
\* disabled logger stays disabled and makes no remote call in any callback
C1_DisabledForGood ==
    /\ [](consecFails >= InitialFails => ~_enabled)
    /\ [][~_enabled => (~_enabled' /\ sent' = <<>>)]_vars

C1_Witness ==
    /\ consecFails = InitialFails
    /\ ~_enabled
    /\ lastOp = "close"
    /\ sent = <<>>
    /\ buffered_metadata # EmptyDict

\* C2: no payload handed to the remote call, and no buffered entry, carries a
\* key that matches a pattern of ignore_keys
C2_IgnoredNeverSent ==
    /\ \A i \in Calls : \A entry \in DOMAIN sent[i].payload :
           ~MatchesIgnoreKeys(Unprefixed(entry))
    /\ buffered_metadata # Unset =>
           \A entry \in DOMAIN buffered_metadata : ~MatchesIgnoreKeys(Unprefixed(entry))

\* a dict with the ignored key "ab" was logged and the rest of it was sent
C2_Witness ==
    /\ ignore_keys = ListV(<< <<"a", "?">> >>)
    /\ lastOp = "log_metrics"
    /\ Len(sent) = 1
    /\ sent[1].ok
    /\ Prefixed(KeyA) \in DOMAIN sent[1].payload
    /\ sent[1].payload[Prefixed(KeyA)] = IntV(2)

\* C3: a flush that is not forced makes no remote call within log_interval
\* seconds of the last successful one, and epoch_end then changes nothing
C3_NoFlushWithinInterval ==
    [][/\ \A i \in 1..Len(sent') :
              ~sent'[i].force =>
                  \/ sent'[i].lastOk = -1
                  \/ sent'[i].at - sent'[i].lastOk > log_interval
       /\ (lastOp' = "epoch_end" /\ lastOkAt # -1 /\ now - lastOkAt <= log_interval) =>
              /\ sent' = <<>>
              /\ UNCHANGED <<buffered_metadata, time_last_logged, allowed_fails_left,
                             time_failed_count_adjusted, _enabled>>]_vars

C3_Witness ==
    /\ lastOp = "epoch_end"
    /\ _enabled
    /\ lastOkAt # -1
    /\ now - lastOkAt = log_interval
    /\ buffered_metadata # EmptyDict
    /\ sent = <<>>

\* C4: allowed_fails_left changes only in a remote call: a failed one takes one
\* away, a successful one gives at most one back, and only below the initial
\* budget and more than an hour after the last failure and the last increment
C4_BudgetMoves ==
    [][LET n == Len(sent') IN
       /\ n = 0 => allowed_fails_left' = allowed_fails_left
       /\ n > 0 => /\ sent'[1].before = allowed_fails_left
                   /\ sent'[n].after = allowed_fails_left'
                   /\ \A i \in 1..(n - 1) : sent'[i].after = sent'[i + 1].before
       /\ \A i \in 1..n :
              IF sent'[i].ok
              THEN \/ sent'[i].after = sent'[i].before
                   \/ /\ sent'[i].after = sent'[i].before + 1
                      /\ sent'[i].before < InitialFails
                      /\ sent'[i].lastAdjust # -1
                      /\ sent'[i].returned - sent'[i].lastAdjust > FailWindow
              ELSE sent'[i].after = sent'[i].before - 1]_vars

\* a successful flush gave one failure back
C4_Witness ==
    \E i \in Calls : sent[i].ok /\ sent[i].after = sent[i].before + 1

\* C5 as stated: the payload of a successful flush holds, for each key logged
\* since the last successful flush, the value of the most recent log call
C5_PayloadIsLoggedValues ==
    \A i \in Calls :
        sent[i].ok =>
            /\ DOMAIN sent[i].payload = DOMAIN sent[i].expected
            /\ \A entry \in DOMAIN sent[i].payload :
                   /\ sent[i].payload[entry].t = sent[i].expected[entry].t
                   /\ sent[i].payload[entry].v = sent[i].expected[entry].v

\* C5, amended: a successful flush leaves the buffer empty, and its payload
\* holds, for each key logged since the last successful flush, the
\* JSON-serializable form of the value of the most recent log call
C5_PayloadIsFormattedValues ==
    \A i \in Calls :
        sent[i].ok =>
            /\ sent[i].left = EmptyDict
            /\ DOMAIN sent[i].payload = DOMAIN sent[i].expected
            /\ \A entry \in DOMAIN sent[i].payload :
                   sent[i].payload[entry] =
                       format_data_to_json_serializable(sent[i].expected[entry])

\* a flush sent 'None' for a key last logged as None, together with another key
C5_Witness ==
    \E i \in Calls :
        /\ sent[i].ok
        /\ Prefixed(KeyA) \in DOMAIN sent[i].payload
        /\ sent[i].expected[Prefixed(KeyA)] = NoneV
        /\ sent[i].payload[Prefixed(KeyA)] = StrV(<<"None">>)
        /\ Cardinality(DOMAIN sent[i].payload) > 1

\* C6: a logger built on a rank other than 0, or without RUN_NAME, is disabled,
\* and no callback raises, makes a remote call or buffers anything
C6_DisabledFromConstruction ==
    (global_rank # 0 \/ env_run_name = NoneV) =>
        /\ ~_enabled
        /\ raised = "none"
        /\ sent = <<>>
        /\ buffered_metadata \in {Unset, EmptyDict}

C6_Witness ==
    /\ global_rank = 0
    /\ env_run_name = NoneV
    /\ lastOp = "batch_end"

\* the callbacks that flush with force_flush=True
Forced == {"fit_end", "eval_end", "predict_end", "close"}

\* C13: on an enabled logger, fit_end, eval_end, predict_end and close that
\* return make a remote call whatever the time since the last flush, the last
\* one forced unless a failure has disabled the logger by then; if the last
\* call succeeds the buffer is empty afterwards, and a successful call of
\* close carries all that was buffered before
C13_ForcedFlush ==
    [][(lastOp' \in Forced /\ _enabled /\ raised' = "none") =>
           /\ sent' # <<>>
           /\ sent'[Len(sent')].force \/ ~_enabled'
           /\ sent'[Len(sent')].ok => buffered_metadata' = EmptyDict
           /\ lastOp' \in Forced \ {"fit_end"} =>
                  /\ Len(sent') = 1
                  /\ sent'[1].force
                  /\ sent'[1].payload = buffered_metadata]_vars

\* close sent a buffered entry within log_interval of the last successful flush
C13_Witness ==
    /\ lastOp = "close"
    /\ Len(sent) = 1
    /\ sent[1].ok
    /\ sent[1].force
    /\ sent[1].lastOk # -1
    /\ sent[1].at - sent[1].lastOk <= log_interval
    /\ sent[1].payload # EmptyDict
    /\ buffered_metadata = EmptyDict

\* the callbacks that call _flush_metadata, forced or not
Flushing == Forced \cup {"log_hyperparameters", "log_metrics", "after_load",
                         "batch_end", "epoch_end"}

\* a failed remote call changes neither the buffer nor time_last_logged, and no
\* callback that made a call raises
FailedFlushFrame ==
    /\ \A i \in 1..Len(sent') : ~sent'[i].ok => sent'[i].left = sent'[i].payload
    /\ (sent' # <<>> /\ \A i \in 1..Len(sent') : ~sent'[i].ok) =>
           /\ time_last_logged' = time_last_logged
           /\ raised' = "none"

\* the entries buffered stay buffered until a remote call succeeds, and are in
\* the payload of the first that does
RetainedUntilSent ==
    _enabled =>
        IF \E i \in 1..Len(sent') : sent'[i].ok
        THEN LET first == CHOOSE i \in 1..Len(sent') :
                              sent'[i].ok /\ \A j \in 1..(i - 1) : ~sent'[j].ok
             IN DOMAIN buffered_metadata \subseteq DOMAIN sent'[first].payload
        ELSE DOMAIN buffered_metadata \subseteq DOMAIN buffered_metadata'

\* the last remote call failed and left the logger enabled
JustFailed == sent # <<>> /\ ~sent[Len(sent)].ok /\ _enabled

\* C15 as stated: a failed flush changes neither the buffer nor
\* time_last_logged and raises nothing, the next flush call, whichever it is,
\* makes the remote call again, and the entries are in the payload of the next
\* successful flush
C15_NextFlushRetries ==
    [][/\ FailedFlushFrame
       /\ RetainedUntilSent
       /\ (JustFailed /\ lastOp' \in Flushing /\ raised' = "none") =>
              sent' # <<>>]_vars

\* C15, amended: the next flush call makes the remote call again if it is
\* forced or more than log_interval has passed since the last successful flush
C15_FailureKeepsInterval ==
    [][/\ FailedFlushFrame
       /\ RetainedUntilSent
       /\ (JustFailed /\ lastOp' \in Flushing /\ raised' = "none") =>
              IF lastOp' \in Forced \/ now - time_last_logged > log_interval
              THEN /\ sent' # <<>>
                   /\ DOMAIN buffered_metadata \subseteq DOMAIN sent'[1].payload
              ELSE sent' = <<>> /\ DOMAIN buffered_metadata \subseteq DOMAIN buffered_metadata']_vars

\* a flush that was not forced succeeded after a failure, and sent entries
C15_Witness ==
    /\ Len(sent) = 1
    /\ sent[1].ok
    /\ ~sent[1].force
    /\ sent[1].before < InitialFails
    /\ sent[1].lastOk < sent[1].lastAdjust
    /\ sent[1].payload # EmptyDict
    /\ sent[1].left = EmptyDict

\* C16: on a logger enabled at construction allowed_fails_left stays within 0
\* and the initial budget, before and after every remote call, and the logger
\* is enabled only with at least one failure left
C16_BudgetWithinBounds ==
    (global_rank = 0 /\ env_run_name # NoneV) =>
        /\ allowed_fails_left \in 0..InitialFails
        /\ _enabled => allowed_fails_left >= 1
        /\ \A i \in Calls : /\ sent[i].before \in 1..InitialFails
                            /\ sent[i].after \in 0..InitialFails

\* the budget is back at its ceiling after a failure was given back
C16_Witness ==
    /\ global_rank = 0
    /\ env_run_name # NoneV
    /\ allowed_fails_left = InitialFails
    /\ sent # <<>>
    /\ sent[Len(sent)].ok
    /\ sent[Len(sent)].before = InitialFails - 1

\* C17: three failed remote calls, each less than an hour after the one
\* before, leave the logger disabled whatever succeeded in between; batch_end
\* makes up to two remote calls, and two that fail take two from the budget
C17_SuccessKeepsBudget ==
    /\ [](failsInWindow >= InitialFails => ~_enabled)
    /\ [][lastOp' = "batch_end" =>
              /\ Len(sent') <= 2
              /\ (Len(sent') = 2 /\ ~sent'[1].ok /\ ~sent'[2].ok) =>
                     allowed_fails_left' = allowed_fails_left - 2]_vars

\* a failure, a successful flush, then a batch_end whose two calls both failed
\* and disabled the logger
C17_Witness ==
    /\ lastOp = "batch_end"
    /\ Len(sent) = 2
    /\ ~sent[1].ok
    /\ ~sent[2].ok
    /\ sent[1].before = InitialFails - 1
    /\ sent[1].lastAdjust < sent[1].lastOk
    /\ failsInWindow = InitialFails
    /\ consecFails = 2
    /\ ~_enabled

\* the number of elements of a tensor of this shape
Elements(shape) == IF shape = <<>> THEN 1 ELSE Prod(shape)

\* out is what C14 says of data: 'None' for None, the scalar itself, the element
\* of a one-element tensor, the shape's description for a larger one, and the
\* same of every key, value and element of a mapping or an iterable
RECURSIVE NormalOf(_, _)
NormalOf(out, data) ==
    IF data.t = "none" THEN out = StrV(<<"None">>)
    ELSE IF data.t \in {"str", "int", "float", "bool"} THEN out = data
    ELSE IF data.t = "tensor" THEN
        IF Elements(data.v.shape) = 1
        THEN data.v.data[1] # RaisesV => NormalOf(out, data.v.data[1])
        ELSE Elements(data.v.shape) > 1 =>
                 /\ out.t = "str"
                 /\ Head(out.v) = "Tensor of shape "
                 /\ Tail(out.v) = ShapeStr(data.v.shape)
    ELSE IF data.t = "map" THEN
        /\ out.t = "map"
        /\ \A i \in 1..Len(out.v) : \E j \in 1..Len(data.v) :
               NormalOf(out.v[i][1], data.v[j][1]) /\ NormalOf(out.v[i][2], data.v[j][2])
        /\ \A j \in 1..Len(data.v) : \E i \in 1..Len(out.v) :
               NormalOf(out.v[i][1], data.v[j][1])
    ELSE IF data.t = "list" THEN
        /\ out.t = "list"
        /\ Len(out.v) = Len(data.v)
        /\ \A i \in 1..Len(data.v) : NormalOf(out.v[i], data.v[i])
    ELSE TRUE

-----------------------------------------------------------------------------
(* Claims about EvalOutputLogging *)

\* the value of a row in the column named correct
CorrectOf(columns, row) == row[Index(columns, "correct")]

NoneCorrect(columns, rows) ==
    \A i \in 1..Len(rows) : ~Truthy(CorrectOf(columns, rows[i]))

\* the rows the last eval_end kept, each with the metric they come from: those
\* of its log_table calls and those of the table entry it stored
KeptRows ==
    { <<log_table_calls[i].metric, log_table_calls[i].rows>> : i \in 1..Len(log_table_calls) }
    \cup (IF evalOp = "eval_end" /\ stored_by # <<>>
          THEN { <<stored_by[Len(stored_by)], table[evalLabel][2]>> }
          ELSE {})

\* the rows the m-th metric returned to the last eval_end
Returned_rows(m) == responses[m].rows.v

\* of these, the rows with a falsy value in the column correct
Incorrect(m) ==
    SelectSeq(Returned_rows(m),
              LAMBDA row : ~Truthy(CorrectOf(responses[m].columns.v, row)))

\* kept is a selection of n of the rows of available, none taken twice
Selection(kept, available, n) ==
    /\ Len(kept) = n
    /\ \E draw \in Draws(Len(available), n) : kept = Sample(available, draw)

\* C7: with print_only_incorrect, every row in the table and every row passed
\* to log_table has a falsy value in the column correct
C7_OnlyIncorrectKept ==
    print_only_incorrect =>
        /\ \A b \in DOMAIN table : NoneCorrect(table[b][1], table[b][2])
        /\ \A i \in 1..Len(log_table_calls) :
               NoneCorrect(log_table_calls[i].columns, log_table_calls[i].rows)

\* a metric returned a correct row and other rows, and the others were logged
C7_Witness ==
    /\ print_only_incorrect
    /\ evalOp = "eval_end"
    /\ \E i \in 1..Len(log_table_calls) :
           /\ log_table_calls[i].rows # <<>>
           /\ Len(Incorrect(log_table_calls[i].metric))
                  < Len(Returned_rows(log_table_calls[i].metric))

C9_SubsetSample ==
    \A kept \in KeptRows :
        LET available == IF print_only_incorrect
                         THEN Incorrect(kept[1]) ELSE Returned_rows(kept[1])
        IN IF subset_sample > 0
           THEN Selection(kept[2], available, Min(subset_sample, Len(available)))
           ELSE kept[2] = available

\* one of two available rows was kept
C9_Witness ==
    /\ subset_sample = 1
    /\ print_only_incorrect
    /\ evalOp = "eval_end"
    /\ \E kept \in KeptRows : Len(kept[2]) = 1 /\ Len(Incorrect(kept[1])) = 2

\* C10: a metric that returns columns without correct, and rows, makes eval_end
\* raise ValueError at once: nothing is logged or stored for that metric
C10_MissingCorrectRaises ==
    evalOp = "eval_end" =>
        \A i \in 1..Len(visited) :
            LET m == visited[i] IN
            ( /\ eval_metrics[evalLabel][m].format_response_cache
              /\ responses[m].columns.t # "none"
              /\ responses[m].rows.t # "none"
              /\ ~Contains(responses[m].columns.v, "correct") ) =>
                /\ evalError = "ValueError"
                /\ i = Len(visited)
                /\ \A c \in 1..Len(log_table_calls) : log_table_calls[c].metric # m
                /\ \A k \in 1..Len(stored_by) : stored_by[k] # m

\* the first metric was logged and stored, the second raised
C10_Witness ==
    /\ evalOp = "eval_end"
    /\ evalError = "ValueError"
    /\ visited = <<1, 2>>
    /\ stored_by = <<1>>
    /\ log_table_calls # <<>>
    /\ print_only_incorrect
    /\ subset_sample = 1

\* the caches of benchmark's metrics that have set_response_cache, in flags
CachesOf(flags, benchmark) ==
    { flags[benchmark][m] : m \in { k \in MetricIds :
                                      eval_metrics[benchmark][k].set_response_cache } }

\* C18: eval_end on a DataLoader whose dataset is not an ICL dataset, or has no
\* tokenizer, returns normally, leaves the table unchanged, logs no table and
\* leaves response caching off on the metrics of the current benchmark
C18_OtherDataloaderReturns ==
    [][( /\ evalOp' = "eval_end"
         /\ evalDataloader'.class = "DataLoader"
         /\ ~Logs(evalDataloader')
         /\ evalLabel' \in Benchmarks ) =>
           /\ evalError' = "none"
           /\ table' = table
           /\ log_table_calls' = <<>>
           /\ CachesOf(response_cache', evalLabel') \subseteq {FALSE}]_vars

\* C19: eval_start switches the caches of the benchmark's metrics that have
\* set_response_cache on, an eval_end that returns switches them off, an
\* eval_end that raises leaves every cache as it was, and nothing else changes
\* a cache, so a cache is on only from an eval_start to the next eval_end of
\* its benchmark that returns
C19_CachingFollowsEvaluation ==
    /\ [][( evalOp' = "eval_start" =>
              CachesOf(response_cache', evalLabel') \subseteq {TRUE} )
          /\ ( (evalOp' = "eval_end" /\ evalError' = "none") =>
                 CachesOf(response_cache', evalLabel') \subseteq {FALSE} )
          /\ ( (evalOp' = "eval_end" /\ evalError' # "none") =>
                 response_cache' = response_cache )
          /\ \A b \in Benchmarks : \A m \in MetricIds :
               /\ (~response_cache[b][m] /\ response_cache'[b][m]) =>
                      /\ evalOp' = "eval_start" /\ evalLabel' = b
                      /\ eval_metrics[b][m].set_response_cache
               /\ (response_cache[b][m] /\ ~response_cache'[b][m]) =>
                      evalOp' = "eval_end" /\ evalLabel' = b /\ evalError' = "none"]_vars
    /\ [](evalOp = "__init__" =>
             \A b \in Benchmarks : \A m \in MetricIds : ~response_cache[b][m])

\* an eval_end that raised on the missing correct column, its caches still on
C19_Witness ==
    /\ evalOp = "eval_end"
    /\ evalError = "ValueError"
    /\ evalLabel \in Benchmarks
    /\ TRUE \in CachesOf(response_cache, evalLabel)

-----------------------------------------------------------------------------
(* Claims about the table's lifecycle and its export *)

Writes == {"eval_after_all", "eval_standalone_end"}

\* a cell of a stored row as a line of the file holds it: a string
\* unicode-escaped as bytes, a boolean by its name
AsWritten(cell) ==
    IF cell.t = "str" THEN StrV(<<"b'">> \o cell.v \o <<"'">>)
    ELSE StrV(<<IF cell.v THEN "True" ELSE "False">>)

\* the lines of file tagged with benchmark
LinesOf(file, benchmark) ==
    SelectSeq(file.rows, LAMBDA line : line[Index(file.columns, "benchmark")] = benchmark)

\* file holds the rows of every entry of stored under the entry's columns, each
\* tagged with its benchmark, and no other line
FileHolds(file, stored) ==
    /\ \A b \in DOMAIN stored :
           /\ Len(LinesOf(file, b)) = Len(stored[b].rows)
           /\ \A i \in 1..Len(stored[b].rows), j \in 1..Len(stored[b].columns) :
                  LinesOf(file, b)[i][Index(file.columns, stored[b].columns[j])]
                      = AsWritten(stored[b].rows[i][j])
    /\ \A i \in 1..Len(file.rows) :
           file.rows[i][Index(file.columns, "benchmark")] \in DOMAIN stored

C12_TempFilesOfWrite ==
    evalOp \in Writes =>
        /\ evalError = "none" =>
               /\ tmp_dirs[hash] = "absent"
               /\ Len(delivered) = 1
               /\ delivered[1].sink = (IF resolved = "store" THEN "upload" ELSE "copy")
               /\ delivered[1].content = written
               /\ resolved # "unasked"
        /\ failed_in \in {"to_csv", "upload", "copy"} =>
               /\ evalError # "none"
               /\ tmp_dirs[hash] = "file"
               /\ delivered = <<>>

\* an earlier write that raised left its file behind; the next one returned
\* after a local copy
C12_Witness ==
    /\ evalOp \in Writes
    /\ evalError = "none"
    /\ hash = MaxWrites
    /\ tmp_dirs[1] = "file"
    /\ tmp_dirs[hash] = "absent"
    /\ resolved = "none"
    /\ delivered # <<>>
    /\ delivered[1].sink = "copy"
    /\ delivered[1].content.rows # <<>>

=============================================================================
